---- MODULE Spec2Model ----
(***************************************************************************)
(* A model of stranding/stranding.py: GenomeStranding.strand_flanks, the   *)
(* acceptance thresholds is_high_scoring / is_perfect_score, align and     *)
(* align_and_log.  One call of strand_flanks is a run of the state machine *)
(* Spec; the thresholds alone are exercised by SpecScorer.                 *)
(*                                                                         *)
(* DNA strings are sequences of one-letter strings.  tolerance is a        *)
(* rational [num, den]; every comparison against it is cross-multiplied.   *)
(***************************************************************************)
EXTENDS Integers, Sequences, FiniteSets, TLC

VARIABLES
    \* GenomeStranding.__init__ (the configuration of the instance)
    min_flank_length, tolerance, match_score, mismatch_penalty, gap_open_penalty,
    \* the arguments of strand_flanks
    five_prime, three_prime, chr_name, pos, window,
    \* the position of the call and how it ended
    pc, returned, raised,
    \* locals of strand_flanks
    refs_loaded, ref_5p, ref_3p, outcomes, is_fwd, is_rev, logged,
    \* observers: calls of the reference provider and of the alignment engine
    provider_calls, align_calls, engine_params, high_evals,
    \* SpecScorer: one application of is_high_scoring / is_perfect_score
    t_pc, t_query, t_score, t_high, t_perfect

config_vars == <<min_flank_length, tolerance, match_score, mismatch_penalty,
                 gap_open_penalty>>
input_vars == <<five_prime, three_prime, chr_name, pos, window>>
local_vars == <<refs_loaded, ref_5p, ref_3p, outcomes, is_fwd, is_rev, logged>>
observer_vars == <<provider_calls, align_calls, engine_params, high_evals>>
scorer_vars == <<t_pc, t_query, t_score, t_high, t_perfect>>
vars == <<config_vars, input_vars, pc, returned, raised, local_vars,
          observer_vars, scorer_vars>>

----------------------------------------------------------------------------
(* Bounds of the model *)

MaxFlankLen == 3
MaxWindow == 1

(* Program constants *)

FORWARD_STRAND == 1
REVERSE_STRAND == -1

----------------------------------------------------------------------------
(* Sequences of bases *)

Max(a, b) == IF a >= b THEN a ELSE b

Complement(b) ==
    CASE b = "A" -> "T"
      [] b = "T" -> "A"
      [] b = "C" -> "G"
      [] b = "G" -> "C"
      [] OTHER -> b

\* str(Seq(s).reverse_complement())
reverse_complement(s) == [i \in 1..Len(s) |-> Complement(s[Len(s) + 1 - i])]

\* The bases the query flanks are drawn from, and every flank up to MaxFlankLen.
QueryBases == {"A", "T"}
Flanks == UNION {[1..k -> QueryBases] : k \in 0..MaxFlankLen}

----------------------------------------------------------------------------
(* The reference provider: seqseek.Chromosome(name, build, loop).sequence   *)

\* The assembly: every known chromosome carries this sequence (0-based).
Genome == <<"A", "T", "T", "A", "A", "T", "A", "T", "A", "C">>
KnownChromosomes == {"1", "X", "MT"}

\* Chromosome(...).sequence(start, end): the bases start..end-1 (0-based,
\* end exclusive); with loop the coordinates wrap around the sequence.
\* [ok |-> FALSE] stands for the ValueError of an unknown name or a range
\* outside the chromosome.
sequence(name, loop, start, end) ==
    LET L == Len(Genome) IN
    IF name \notin KnownChromosomes \/ start > end
    THEN [ok |-> FALSE, seq |-> <<>>]
    ELSE IF loop
    THEN [ok |-> TRUE,
          seq |-> [k \in 1..(end - start) |-> Genome[((start + k - 1) % L) + 1]]]
    ELSE IF start < 0 \/ end > L
    THEN [ok |-> FALSE, seq |-> <<>>]
    ELSE [ok |-> TRUE, seq |-> [k \in 1..(end - start) |-> Genome[start + k]]]

----------------------------------------------------------------------------
(* The alignment engine: Bio.pairwise2.align.localms                        *)

SetMax(S) == CHOOSE x \in S : \A y \in S : x >= y

\* One row of the local-alignment score matrix (affine gaps: a gap of k
\* positions costs open + (k - 1) * extend).  prev is the row above, acc the
\* columns 0..Len(acc)-1 of this row (index c is column c-1), a_i the base of
\* the first sequence on this row.  A cell holds H, the best score of an
\* alignment ending there, and E and F, the best ending there in a gap of the
\* first and of the second sequence; none is the score of "no such alignment".
RECURSIVE FillRow(_, _, _, _, _)
FillRow(prev, a_i, b, P, acc) ==
    LET j == Len(acc)
    IN  IF j > Len(b) THEN acc
        ELSE IF j = 0
        THEN FillRow(prev, a_i, b, P, <<[H |-> 0, E |-> P.none, F |-> P.none]>>)
        ELSE LET subst == IF a_i = b[j] THEN P.match ELSE P.mismatch
                 e == Max(acc[j].H + P.open, acc[j].E + P.extend)
                 f == Max(prev[j + 1].H + P.open, prev[j + 1].F + P.extend)
                 h == Max(Max(0, prev[j].H + subst), Max(e, f))
             IN  FillRow(prev, a_i, b, P, Append(acc, [H |-> h, E |-> e, F |-> f]))

\* The rows 1..Len(a) of the matrix, keeping the best H seen.
RECURSIVE BestLocal(_, _, _, _, _, _)
BestLocal(prev, i, a, b, P, best) ==
    IF i > Len(a) THEN best
    ELSE LET row == FillRow(prev, a[i], b, P, <<>>)
         IN  BestLocal(row, i + 1, a, b, P,
                       SetMax({best} \cup {row[c].H : c \in 1..Len(row)}))

\* localms(sequenceA, sequenceB, match, mismatch, open, extend): the best
\* local alignment score; nothing is found (the engine returns []) when a
\* sequence is empty.
localms(sequenceA, sequenceB, match, mismatch, open, extend) ==
    IF Len(sequenceA) = 0 \/ Len(sequenceB) = 0
    THEN [found |-> FALSE, score |-> 0]
    ELSE LET none == -(1 + (Len(sequenceA) + Len(sequenceB)) * (match - mismatch - extend))
             P == [match |-> match, mismatch |-> mismatch,
                   open |-> open, extend |-> extend, none |-> none]
             first == [c \in 1..(Len(sequenceB) + 1) |->
                          [H |-> 0, E |-> none, F |-> none]]
         IN  [found |-> TRUE,
              score |-> BestLocal(first, 1, sequenceA, sequenceB, P, 0)]

----------------------------------------------------------------------------
(* GenomeStranding: the scorer                                              *)

\* Mutant: the threshold itself is accepted (>= for >).
is_high_scoring_ge(score, query) ==
    IF Len(query) < min_flank_length THEN FALSE
    ELSE score * tolerance.den >= Len(query) * match_score * tolerance.num

is_high_scoring(score, query) ==
    IF Len(query) < min_flank_length THEN FALSE
    ELSE score * tolerance.den > Len(query) * match_score * tolerance.num

\* Mutant: the length guard is missing.
is_perfect_score_any_length(score, query) == score = Len(query) * match_score

is_perfect_score(score, query) ==
    IF Len(query) < min_flank_length THEN FALSE
    ELSE score = Len(query) * match_score

\* The scoring arguments align hands to localms, in its order
\* (match, mismatch, open, extend).
scoring_arguments ==
    <<match_score, mismatch_penalty, gap_open_penalty, mismatch_penalty>>

engine_result(ref, query) ==
    localms(ref, query, scoring_arguments[1], scoring_arguments[2],
            scoring_arguments[3], scoring_arguments[4])

\* align(ref, query, score_only=True)
align(ref, query) ==
    LET alignment == engine_result(ref, query)
    IN  IF ~alignment.found \/ alignment.score = 0 THEN 0 ELSE alignment.score

\* align(ref, query, False): whether the list of alignments has an element.
has_alignments(ref, query) ==
    LET alignment == engine_result(ref, query)
    IN  alignment.found /\ alignment.score > 0

----------------------------------------------------------------------------
(* GenomeStranding.strand_flanks                                            *)

Returned(strand) == [returned |-> <<strand>>, raised |-> ""]
Raised(kind) == [returned |-> <<>>, raised |-> kind]

\* chr_name in ('0', 0): "int 0" stands for the integer 0.
UnmappedChromosomes == {"0", "int 0"}

max_length(p5, p3) == Max(Len(p5), Len(p3))

\* The two reference windows (lines 132-140); ok is FALSE for the ValueError.
reference_5p(p5, p3, chr, ps, win) ==
    sequence(IF chr = "XY" THEN "X" ELSE chr, chr = "MT",
             ps - win - max_length(p5, p3), ps + win)

reference_3p(p5, p3, chr, ps, win) ==
    sequence(IF chr = "XY" THEN "X" ELSE chr, chr = "MT",
             ps - win, ps + max_length(p5, p3) + win + 1)

\* Mutant: both flanks must match (and for or).
exact_forward_both(p5, p3, r5, r3, win) == win = 0 /\ (p3 = r3 /\ p5 = r5)

exact_forward(p5, p3, r5, r3, win) == win = 0 /\ (p3 = r3 \/ p5 = r5)

exact_reverse(p5, p3, r5, r3, win) ==
    win = 0 /\ (p3 = reverse_complement(r5) \/ p5 = reverse_complement(r3))

\* Mutant: the tolerance test is > for ==.
strict_mode_above(win) == win = 0 /\ tolerance.num > tolerance.den

strict_mode(win) == win = 0 /\ tolerance.num = tolerance.den

\* Mutant: the reverse hypotheses pair each flank with its own window.
Hypotheses_uncrossed(p5, p3, r5, r3) ==
    << [reference |-> r5, query |-> p5, strand |-> FORWARD_STRAND],
       [reference |-> r3, query |-> p3, strand |-> FORWARD_STRAND],
       [reference |-> reverse_complement(r5), query |-> p5, strand |-> REVERSE_STRAND],
       [reference |-> reverse_complement(r3), query |-> p3, strand |-> REVERSE_STRAND] >>

\* Mutant: the reverse hypotheses are scored first.
Hypotheses_reverse_first(p5, p3, r5, r3) ==
    << [reference |-> reverse_complement(r5), query |-> p3, strand |-> REVERSE_STRAND],
       [reference |-> reverse_complement(r3), query |-> p5, strand |-> REVERSE_STRAND],
       [reference |-> r5, query |-> p5, strand |-> FORWARD_STRAND],
       [reference |-> r3, query |-> p3, strand |-> FORWARD_STRAND] >>

\* The four outcomes of lines 158-163, in the order they are scored.
Hypotheses(p5, p3, r5, r3) ==
    << [reference |-> r5, query |-> p5, strand |-> FORWARD_STRAND],
       [reference |-> r3, query |-> p3, strand |-> FORWARD_STRAND],
       [reference |-> reverse_complement(r5), query |-> p3, strand |-> REVERSE_STRAND],
       [reference |-> reverse_complement(r3), query |-> p5, strand |-> REVERSE_STRAND] >>

\* Lines 158-187 as a function of the flanks and the reference windows.  On
\* the both-strands path the outcome named is the one reached when
\* align_and_log returns.
scored_outcome(p5, p3, r5, r3) ==
    LET hs == Hypotheses(p5, p3, r5, r3)
        score == [k \in 1..4 |-> align(hs[k].reference, hs[k].query)]
        perfect == {k \in 1..4 : is_perfect_score(score[k], hs[k].query)}
        accepted(strand) == \E k \in 1..4 : /\ hs[k].strand = strand
                                            /\ is_high_scoring(score[k], hs[k].query)
    IN  IF perfect # {}
        THEN Returned(hs[CHOOSE k \in perfect : \A l \in perfect : k <= l].strand)
        ELSE IF accepted(FORWARD_STRAND) /\ accepted(REVERSE_STRAND)
        THEN Raised("InconsistentAlignment")
        ELSE IF accepted(FORWARD_STRAND) THEN Returned(FORWARD_STRAND)
        ELSE IF accepted(REVERSE_STRAND) THEN Returned(REVERSE_STRAND)
        ELSE Raised("Unstrandable")

\* Lines 145-187.
outcome_after_fetch(p5, p3, r5, r3, win) ==
    IF exact_forward(p5, p3, r5, r3, win) THEN Returned(FORWARD_STRAND)
    ELSE IF exact_reverse(p5, p3, r5, r3, win) THEN Returned(REVERSE_STRAND)
    ELSE IF strict_mode(win) THEN Raised("Unstrandable")
    ELSE scored_outcome(p5, p3, r5, r3)

\* The whole call as a function of its arguments.
strand_flanks(p5, p3, chr, ps, win) ==
    LET r5 == reference_5p(p5, p3, chr, ps, win)
        r3 == reference_3p(p5, p3, chr, ps, win)
    IN  IF ps = 0 THEN Raised("Unstrandable")
        ELSE IF chr \in UnmappedChromosomes THEN Raised("Unstrandable")
        ELSE IF max_length(p5, p3) < min_flank_length THEN Raised("FlanksTooShort")
        ELSE IF ~r5.ok \/ ~r3.ok THEN Raised("MissingReferenceFlank")
        ELSE outcome_after_fetch(p5, p3, r5.seq, r3.seq, win)

----------------------------------------------------------------------------
(* The state machine of one call                                            *)

Finish(outcome) ==
    /\ pc' = "done"
    /\ returned' = outcome.returned
    /\ raised' = outcome.raised

Continue(next) ==
    /\ pc' = next
    /\ UNCHANGED <<returned, raised>>

ref_5p_RC == reverse_complement(ref_5p)
ref_3p_RC == reverse_complement(ref_3p)

\* Mutant: the test of pos == 0 is missing.
Validate_without_pos ==
    /\ pc = "validate"
    /\ IF chr_name \in UnmappedChromosomes THEN Finish(Raised("Unstrandable"))
       ELSE IF max_length(five_prime, three_prime) < min_flank_length
       THEN Finish(Raised("FlanksTooShort"))
       ELSE Continue("fetch")
    /\ UNCHANGED <<config_vars, input_vars, local_vars, observer_vars, scorer_vars>>

\* Lines 122-129: the sanity checks.
Validate ==
    /\ pc = "validate"
    /\ IF pos = 0 THEN Finish(Raised("Unstrandable"))
       ELSE IF chr_name \in UnmappedChromosomes THEN Finish(Raised("Unstrandable"))
       ELSE IF max_length(five_prime, three_prime) < min_flank_length
       THEN Finish(Raised("FlanksTooShort"))
       ELSE Continue("fetch")
    /\ UNCHANGED <<config_vars, input_vars, local_vars, observer_vars, scorer_vars>>

\* Lines 131-143: Chromosome(...) and the two sequence(...) calls.
FetchReference ==
    /\ pc = "fetch"
    /\ LET r5 == reference_5p(five_prime, three_prime, chr_name, pos, window)
           r3 == reference_3p(five_prime, three_prime, chr_name, pos, window)
       IN  IF ~r5.ok
           THEN /\ Finish(Raised("MissingReferenceFlank"))
                /\ provider_calls' = provider_calls + 2
                /\ UNCHANGED <<refs_loaded, ref_5p, ref_3p>>
           ELSE IF ~r3.ok
           THEN /\ Finish(Raised("MissingReferenceFlank"))
                /\ provider_calls' = provider_calls + 3
                /\ UNCHANGED <<refs_loaded, ref_5p, ref_3p>>
           ELSE /\ Continue("exact_forward")
                /\ provider_calls' = provider_calls + 3
                /\ refs_loaded' = TRUE
                /\ ref_5p' = r5.seq
                /\ ref_3p' = r3.seq
    /\ UNCHANGED <<config_vars, input_vars, outcomes, is_fwd, is_rev, logged,
                   align_calls, engine_params, high_evals, scorer_vars>>

\* Lines 145-147.
ExactForward ==
    /\ pc = "exact_forward"
    /\ IF exact_forward(five_prime, three_prime, ref_5p, ref_3p, window)
       THEN Finish(Returned(FORWARD_STRAND))
       ELSE Continue("exact_reverse")
    /\ UNCHANGED <<config_vars, input_vars, local_vars, observer_vars, scorer_vars>>

\* Lines 149-153.
ExactReverse ==
    /\ pc = "exact_reverse"
    /\ IF exact_reverse(five_prime, three_prime, ref_5p, ref_3p, window)
       THEN Finish(Returned(REVERSE_STRAND))
       ELSE Continue("strict")
    /\ UNCHANGED <<config_vars, input_vars, local_vars, observer_vars, scorer_vars>>

\* Lines 155-156.
StrictCheck ==
    /\ pc = "strict"
    /\ IF strict_mode(window)
       THEN Finish(Raised("Unstrandable"))
       ELSE Continue("score")
    /\ UNCHANGED <<config_vars, input_vars, local_vars, observer_vars, scorer_vars>>

\* Lines 165-168: one round of the loop over outcomes.
ScoreOutcome ==
    /\ pc = "score"
    /\ LET o == Hypotheses(five_prime, three_prime, ref_5p, ref_3p)[Len(outcomes) + 1]
           score == align(o.reference, o.query)
       IN  /\ align_calls' = align_calls + 1
           /\ engine_params' = scoring_arguments
           /\ outcomes' = Append(outcomes, [reference |-> o.reference, query |-> o.query,
                                            strand |-> o.strand, score |-> score])
           /\ IF is_perfect_score(score, o.query)
              THEN Finish(Returned(o.strand))
              ELSE IF Len(outcomes) + 1 = 4 THEN Continue("decide")
              ELSE Continue("score")
    /\ UNCHANGED <<config_vars, input_vars, refs_loaded, ref_5p, ref_3p, is_fwd,
                   is_rev, logged, provider_calls, high_evals, scorer_vars>>

\* any(self.is_high_scoring(o.score, o.query) for o in outcomes if o.strand == strand)
any_high_scoring(strand) ==
    \E k \in 1..Len(outcomes) : /\ outcomes[k].strand = strand
                                /\ is_high_scoring(outcomes[k].score, outcomes[k].query)

\* Lines 170-187 up to the first align_and_log.
Decide ==
    /\ pc = "decide"
    /\ LET fwd == any_high_scoring(FORWARD_STRAND)
           rev == any_high_scoring(REVERSE_STRAND)
       IN  /\ is_fwd' = fwd
           /\ is_rev' = rev
           /\ high_evals' = high_evals + 2
           /\ IF fwd /\ rev THEN Continue("log")
              ELSE IF fwd THEN Finish(Returned(FORWARD_STRAND))
              ELSE IF rev THEN Finish(Returned(REVERSE_STRAND))
              ELSE Finish(Raised("Unstrandable"))
    /\ UNCHANGED <<config_vars, input_vars, refs_loaded, ref_5p, ref_3p, outcomes,
                   logged, provider_calls, align_calls, engine_params, scorer_vars>>

\* Lines 77-81 and 176-182: one align_and_log call.  is_high_scoring is
\* handed the alignment a, not its score: with a query of at least
\* min_flank_length the comparison of a with a float raises TypeError under
\* Python 3 and is true under Python 2 (the record is logged).
AlignAndLog ==
    /\ pc = "log"
    /\ LET o == Hypotheses(five_prime, three_prime, ref_5p, ref_3p)[logged + 1]
           compares == /\ has_alignments(o.reference, o.query)
                       /\ Len(o.query) >= min_flank_length
       IN  /\ align_calls' = align_calls + 1
           /\ engine_params' = scoring_arguments
           /\ high_evals' = high_evals + (IF has_alignments(o.reference, o.query)
                                          THEN 1 ELSE 0)
           /\ \/ /\ compares
                 /\ Finish(Raised("TypeError"))
                 /\ UNCHANGED logged
              \/ /\ logged' = logged + 1
                 /\ IF logged + 1 = 4
                    THEN Finish(Raised("InconsistentAlignment"))
                    ELSE Continue("log")
    /\ UNCHANGED <<config_vars, input_vars, refs_loaded, ref_5p, ref_3p, outcomes,
                   is_fwd, is_rev, provider_calls, scorer_vars>>

----------------------------------------------------------------------------
(* Initial states                                                           *)

Tolerances == {[num |-> 1, den |-> 2], [num |-> 1, den |-> 1]}
ChrNames == UnmappedChromosomes \cup {"1", "XY", "MT"}
Positions == {0, 1, 6}

NoCall ==
    /\ pc = "idle"
    /\ five_prime = <<>> /\ three_prime = <<>>
    /\ chr_name = "1" /\ pos = 1 /\ window = 0

FreshCall ==
    /\ returned = <<>> /\ raised = ""
    /\ refs_loaded = FALSE /\ ref_5p = <<>> /\ ref_3p = <<>>
    /\ outcomes = <<>> /\ is_fwd = FALSE /\ is_rev = FALSE /\ logged = 0
    /\ provider_calls = 0 /\ align_calls = 0 /\ engine_params = <<>>
    /\ high_evals = 0

NoScorer ==
    /\ t_pc = "idle" /\ t_query = <<>> /\ t_score = 0
    /\ t_high = FALSE /\ t_perfect = FALSE

Init ==
    /\ min_flank_length = 2
    /\ tolerance \in Tolerances
    /\ match_score = 2
    /\ mismatch_penalty = -1
    /\ gap_open_penalty = -5
    /\ five_prime \in Flanks
    /\ three_prime \in Flanks
    /\ chr_name \in ChrNames
    /\ pos \in Positions
    /\ window \in 0..MaxWindow
    /\ pc = "validate"
    /\ FreshCall
    /\ NoScorer

Next ==
    \/ Validate
    \/ FetchReference
    \/ ExactForward
    \/ ExactReverse
    \/ StrictCheck
    \/ ScoreOutcome
    \/ Decide
    \/ AlignAndLog

Spec == Init /\ [][Next]_vars

\* The state machine ends as the function strand_flanks says.
OperatorAgrees ==
    pc = "done" =>
        LET f == strand_flanks(five_prime, three_prime, chr_name, pos, window)
        IN  \/ (returned = f.returned /\ raised = f.raised)
            \/ (raised = "TypeError" /\ f.raised = "InconsistentAlignment")

----------------------------------------------------------------------------
(* The scorer alone: is_high_scoring and is_perfect_score applied to every  *)
(* score and query of a bounded range                                       *)

InitScorer ==
    /\ min_flank_length \in 1..MaxFlankLen
    /\ tolerance \in Tolerances
    /\ match_score \in {1, 2}
    /\ mismatch_penalty = -1
    /\ gap_open_penalty = -5
    /\ NoCall
    /\ FreshCall
    /\ t_pc = "high"
    /\ t_query \in Flanks
    /\ t_score \in -1..(2 * MaxFlankLen + 1)
    /\ t_high = FALSE
    /\ t_perfect = FALSE

ApplyHighScoring ==
    /\ t_pc = "high"
    /\ t_high' = is_high_scoring(t_score, t_query)
    /\ t_pc' = "perfect"
    /\ UNCHANGED <<config_vars, input_vars, pc, returned, raised, local_vars,
                   observer_vars, t_query, t_score, t_perfect>>

ApplyPerfectScore ==
    /\ t_pc = "perfect"
    /\ t_perfect' = is_perfect_score(t_score, t_query)
    /\ t_pc' = "done"
    /\ UNCHANGED <<config_vars, input_vars, pc, returned, raised, local_vars,
                   observer_vars, t_query, t_score, t_high>>

NextScorer ==
    \/ ApplyHighScoring
    \/ ApplyPerfectScore

SpecScorer == InitScorer /\ [][NextScorer]_vars

----------------------------------------------------------------------------
(* Properties                                                               *)

Done == pc = "done"
ReturnedStrand(strand) == returned = <<strand>> /\ raised = ""

\* The comparisons of lines 146 and 152, on the windows the call fetched.
MatchesForwardWindow == five_prime = ref_5p \/ three_prime = ref_3p
MatchesReverseWindow ==
    \/ three_prime = reverse_complement(ref_5p)
    \/ five_prime = reverse_complement(ref_3p)

\* The score of a reference/query pair is perfect for the query.
ScoresPerfect(ref, query) ==
    /\ Len(query) >= min_flank_length
    /\ align(ref, query) = Len(query) * match_score

\* C1: every call ends in FORWARD, REVERSE or one of the four error kinds
\* (FlanksTooShort is the code's invalid-input kind); never in anything else.
C1_DefinedOutcomesOnly ==
    Done => \/ ReturnedStrand(FORWARD_STRAND)
            \/ ReturnedStrand(REVERSE_STRAND)
            \/ /\ returned = <<>>
               /\ raised \in {"FlanksTooShort", "MissingReferenceFlank",
                              "Unstrandable", "InconsistentAlignment"}

InvalidInput ==
    \/ pos = 0
    \/ chr_name \in {"0", "int 0"}
    \/ (Len(five_prime) < min_flank_length /\ Len(three_prime) < min_flank_length)

\* C2 as stated: an invalid input raises an invalid-input kind, distinct from
\* Unstrandable, MissingReferenceFlank and InconsistentAlignment, before any
\* reference lookup.
C2_InvalidInputKind ==
    (Done /\ InvalidInput) =>
        /\ returned = <<>>
        /\ raised \notin {"", "Unstrandable", "MissingReferenceFlank",
                          "InconsistentAlignment"}
        /\ provider_calls = 0

\* C2 amended: pos == 0 or an unmapped chromosome raises Unstrandable, two
\* short flanks (with a mapped locus) raise FlanksTooShort, and in all three
\* cases the reference provider is never called.
C2_ValidationOutcomes ==
    InvalidInput =>
        /\ provider_calls = 0
        /\ align_calls = 0
        /\ pc \in {"validate", "done"}
        /\ Done => /\ returned = <<>>
                   /\ raised = IF pos = 0 \/ chr_name \in {"0", "int 0"}
                               THEN "Unstrandable" ELSE "FlanksTooShort"

C2_Witness ==
    Done /\ pos = 0 /\ chr_name = "MT" /\ Len(five_prime) >= min_flank_length
         /\ raised = "Unstrandable" /\ provider_calls = 0

\* C3: with window == 0 and a flank equal to its fetched reference window the
\* call returns FORWARD and align is never invoked.
C3_Exactness ==
    (refs_loaded /\ window = 0 /\ MatchesForwardWindow) =>
        /\ align_calls = 0
        /\ pc \in {"exact_forward", "done"}
        /\ Done => ReturnedStrand(FORWARD_STRAND)

C3_Witness ==
    /\ Done /\ refs_loaded /\ window = 0 /\ five_prime = ref_5p
    /\ ReturnedStrand(FORWARD_STRAND) /\ align_calls = 0

\* The call with both flanks reverse-complemented and their roles swapped.
SwappedCall ==
    strand_flanks(reverse_complement(three_prime), reverse_complement(five_prime),
                  chr_name, pos, window)

ReversePerfect ==
    \/ ScoresPerfect(reverse_complement(ref_5p), three_prime)
    \/ ScoresPerfect(reverse_complement(ref_3p), five_prime)

C5_StrictMode ==
    (refs_loaded /\ window = 0 /\ tolerance.num = tolerance.den
       /\ ~MatchesForwardWindow /\ ~MatchesReverseWindow) =>
        /\ align_calls = 0
        /\ pc \in {"exact_forward", "exact_reverse", "strict", "done"}
        /\ Done => (returned = <<>> /\ raised = "Unstrandable")

C5_Witness ==
    /\ Done /\ refs_loaded /\ window = 0 /\ tolerance.num = tolerance.den
    /\ ~MatchesForwardWindow /\ ~MatchesReverseWindow
    /\ ScoresPerfect(ref_3p, three_prime)
    /\ raised = "Unstrandable" /\ align_calls = 0

\* The call scored all four hypotheses and went on to lines 170-187.
Decided == Done /\ high_evals > 0

AcceptedOn(strand) ==
    \E k \in 1..Len(outcomes) :
        /\ outcomes[k].strand = strand
        /\ Len(outcomes[k].query) >= min_flank_length
        /\ outcomes[k].score * tolerance.den
              > Len(outcomes[k].query) * match_score * tolerance.num

\* C6: alignments accepted on both strands raise InconsistentAlignment; a
\* strand is returned on this path only when one strand alone is accepted,
\* and Unstrandable is raised when none is.
C6_BothStrandsInconsistent ==
    Decided =>
        /\ (AcceptedOn(FORWARD_STRAND) /\ AcceptedOn(REVERSE_STRAND))
              => (returned = <<>> /\ raised = "InconsistentAlignment")
        /\ (AcceptedOn(FORWARD_STRAND) /\ ~AcceptedOn(REVERSE_STRAND))
              => ReturnedStrand(FORWARD_STRAND)
        /\ (~AcceptedOn(FORWARD_STRAND) /\ AcceptedOn(REVERSE_STRAND))
              => ReturnedStrand(REVERSE_STRAND)
        /\ (~AcceptedOn(FORWARD_STRAND) /\ ~AcceptedOn(REVERSE_STRAND))
              => (returned = <<>> /\ raised = "Unstrandable")

\* C7: is_high_scoring is false below min_flank_length and otherwise true
\* exactly when score > len(query) * match_score * tolerance; is_perfect_score
\* is false below min_flank_length and otherwise true exactly when
\* score == len(query) * match_score.
C7_Thresholds ==
    /\ t_pc \in {"perfect", "done"} =>
          (t_high <=> /\ ~(Len(t_query) < min_flank_length)
                      /\ t_score * tolerance.den
                            > Len(t_query) * match_score * tolerance.num)
    /\ t_pc = "done" =>
          (t_perfect <=> /\ ~(Len(t_query) < min_flank_length)
                         /\ t_score = Len(t_query) * match_score)

\* A score equal to the threshold is rejected and yet below the perfect score.
C7_Witness ==
    /\ t_pc = "done" /\ Len(t_query) >= min_flank_length
    /\ t_score * tolerance.den = Len(t_query) * match_score * tolerance.num
    /\ t_score = Len(t_query) * match_score - 1
    /\ ~t_high /\ ~t_perfect

\* C8: every call of align hands the engine (match_score, mismatch_penalty,
\* gap_open_penalty, gap_open_penalty).
C8_GapExtendIsGapOpen ==
    align_calls > 0 =>
        engine_params = <<match_score, mismatch_penalty, gap_open_penalty,
                          gap_open_penalty>>

\* The k-th hypothesis in the documented order.
Documented(k) ==
    CASE k = 1 -> [reference |-> ref_5p, query |-> five_prime,
                   strand |-> FORWARD_STRAND]
      [] k = 2 -> [reference |-> ref_3p, query |-> three_prime,
                   strand |-> FORWARD_STRAND]
      [] k = 3 -> [reference |-> reverse_complement(ref_5p), query |-> three_prime,
                   strand |-> REVERSE_STRAND]
      [] k = 4 -> [reference |-> reverse_complement(ref_3p), query |-> five_prime,
                   strand |-> REVERSE_STRAND]

\* The score recorded for the k-th outcome is perfect for its query.
RecordedPerfect(k) ==
    /\ Len(outcomes[k].query) >= min_flank_length
    /\ outcomes[k].score = Len(outcomes[k].query) * match_score

\* C9: the hypotheses are scored in the documented order; the call returns
\* the strand of the first one whose score is perfect, at once: no later
\* hypothesis is scored and no high-scoring acceptance is evaluated.
C9_FirstPerfectWins ==
    /\ Len(outcomes) <= 4
    /\ pc \in {"score", "decide"} => align_calls = Len(outcomes)
    /\ \A k \in 1..Len(outcomes) :
          /\ outcomes[k].reference = Documented(k).reference
          /\ outcomes[k].query = Documented(k).query
          /\ outcomes[k].strand = Documented(k).strand
          /\ RecordedPerfect(k) =>
                /\ k = Len(outcomes)
                /\ Done
                /\ ReturnedStrand(outcomes[k].strand)
                /\ align_calls = k
                /\ high_evals = 0

\* FORWARD is returned on a perfect score although a reverse hypothesis,
\* never scored, would be perfect too.
C9_Witness ==
    /\ Done /\ Len(outcomes) \in {1, 2} /\ ReturnedStrand(FORWARD_STRAND)
    /\ RecordedPerfect(Len(outcomes))
    /\ ReversePerfect

\* The call stopped at the strict-mode short-circuit of lines 155-156.
StrictShortCircuit ==
    /\ Done /\ refs_loaded /\ window = 0 /\ tolerance.num = tolerance.den
    /\ ~MatchesForwardWindow /\ ~MatchesReverseWindow

\* The variant of the call that skips the short-circuit: lines 158-187.
Variant == scored_outcome(five_prime, three_prime, ref_5p, ref_3p)

\* C10 as stated: the variant ends in Unstrandable as well.
C10_ShortCircuitNeutral ==
    StrictShortCircuit => Variant = Raised("Unstrandable")

\* C10 amended: the variant ends in Unstrandable exactly when no hypothesis
\* scores perfect; otherwise a flank shorter than its reference window occurs
\* in it verbatim and the variant returns that hypothesis's strand.  It never
\* accepts an alignment that is not perfect.
C10_VariantDiffersOnlyOnPerfect ==
    StrictShortCircuit =>
        LET perfect == {k \in 1..4 :
                          ScoresPerfect(Documented(k).reference, Documented(k).query)}
        IN  /\ perfect = {} => Variant = Raised("Unstrandable")
            /\ perfect # {} =>
                  \E k \in perfect :
                      /\ Variant = Returned(Documented(k).strand)
                      /\ Len(Documented(k).query) < Len(Documented(k).reference)

C10_Witness ==
    /\ StrictShortCircuit /\ raised = "Unstrandable"
    /\ Len(five_prime) < Len(three_prime)
    /\ ScoresPerfect(ref_5p, five_prime)
    /\ Variant = Returned(FORWARD_STRAND)

====
